---- MODULE Spec2Model ----
(***************************************************************************)
(* Daily market report generator (generate.js): the aggregation of quotes, *)
(* news and earnings, the synthesis call, the parsing and rendering of the *)
(* analysis text, and the delivery by mail.                                *)
(*                                                                         *)
(* JavaScript values are records with a "type" field; a text is a sequence *)
(* of one-character strings.  Each promise the program awaits is an        *)
(* external request in `outstanding`; an action is one continuation of     *)
(* main: the code that runs from the completion of one awaited request to  *)
(* the issue of the next.  The file holds two variants of the program;    *)
(* the run of main is the numbered-header variant (lines 560-933), and of  *)
(* the other one the section rendering with its title table (lines         *)
(* 196-229, 379-380), the prompt lists (116-118) and the top movers        *)
(* (399-402) are modelled beside it.                                       *)
(***************************************************************************)
EXTENDS Integers, Sequences, FiniteSets, TLC

VARIABLES
  config,       \* the required CONFIG keys whose environment variable is set
  pc,           \* the await at which main is suspended
  i,            \* collectMarketData's loop index (1-based)
  marketData,   \* collectMarketData's accumulator
  quoteResp,    \* what the provider answered to each quote fetch so far
  news,         \* result of fetchMarketNews
  newsResp,     \* what the provider answered to the news fetch
  earnings,     \* result of fetchEarningsCalendar
  earnResp,     \* what the provider answered to the earnings fetch
  snapshot,     \* the value returned by collectMarketData (<<>> before)
  analysis,     \* the text returned by generateAnalysis (<<>> before)
  htmlContent,  \* the document returned by formatEmailHTML (<<>> before)
  outstanding,  \* the external requests in flight
  timerPending, \* the setTimeout of the inter-call delay is armed
  clock,        \* milliseconds the program has certainly waited so far
  log,          \* the events of the run, in order
  exitStatus    \* <<>> while running, <<1>> after process.exit(1), <<0>> at a normal end

vars == <<config, pc, i, marketData, quoteResp, news, newsResp, earnings,
          earnResp, snapshot, analysis, htmlContent, outstanding,
          timerPending, clock, log, exitStatus>>

-----------------------------------------------------------------------------
(* Bounds of the model *)

NumSymbols == 4     \* how many symbols are configured in all
MaxNewsLen == 22    \* longest provider news response
MaxEarnLen == 12    \* longest provider earnings calendar
MaxTextLen == 5     \* longest enumerated analysis text

-----------------------------------------------------------------------------
(* Program constants *)

DelayMs == 1000     \* setTimeout(resolve, 1000)
NewsCap == 20       \* response.slice(0, 20)
EarningsCap == 10   \* earningsCalendar?.slice(0, 10)
MoversCap == 5      \* .slice(0, 5)

Indices == <<"SPY", "QQQ", "DIA", "IWM">>
Majors == <<"AAPL", "MSFT", "GOOGL", "AMZN", "NVDA", "TSLA", "META">>
Sectors == <<"XLK", "XLF", "XLE", "XLV", "XLI", "XLY", "XLP", "XLRE", "XLB", "XLU", "XLC">>

RequiredKeys == {"anthropicApiKey", "finnhubApiKey", "emailUser", "emailPass", "recipientEmail"}

Min(a, b) == IF a < b THEN a ELSE b

Prefix(s, n) == SubSeq(s, 1, Min(n, Len(s)))

\* the configured symbols are shared among the three categories in turn
NumIndices == (NumSymbols + 2) \div 3
NumMajors == (NumSymbols + 1) \div 3
NumSectors == NumSymbols \div 3

ConfigIndices == Prefix(Indices, NumIndices)
ConfigMajors == Prefix(Majors, NumMajors)
ConfigSectors == Prefix(Sectors, NumSectors)

Range(s) == {s[k] : k \in 1..Len(s)}

-----------------------------------------------------------------------------
(* JavaScript values *)

JsUndefined == [type |-> "undefined"]
JsNull == [type |-> "null"]
JsNum(n) == [type |-> "number", val |-> n]
JsArray(items) == [type |-> "array", items |-> items]

\* obj.field: undefined when the object has no such property
Get(obj, field) == IF field \in DOMAIN obj THEN obj[field] ELSE JsUndefined

\* reading a property of null or undefined throws a TypeError
PropertyReadThrows(v) == v.type \in {"null", "undefined"}

Truthy(v) ==
  CASE v.type \in {"null", "undefined"} -> FALSE
    [] v.type = "number" -> v.val # 0
    [] OTHER -> TRUE

-----------------------------------------------------------------------------
(* Provider responses.  kind "neterr": fetch() rejects; "badjson": the body *)
(* is not JSON and res.json() rejects; "json": res.json() resolves to body. *)

NetErr == [kind |-> "neterr"]
BadJson == [kind |-> "badjson"]
Json(body) == [kind |-> "json", body |-> body]

FetchRejects(resp) == resp.kind \in {"neterr", "badjson"}

\* a rate-limit answer of the provider: {"error": "API limit reached..."}
ErrorObject == [type |-> "object", error |-> "API limit reached"]

\* a quote payload; numbers are in hundredths
QuotePayload(c, dp) ==
  [type |-> "object", c |-> JsNum(c), d |-> JsNum(c - 100), dp |-> JsNum(dp),
   h |-> JsNum(c + 10), l |-> JsNum(c - 10), o |-> JsNum(c - 5), pc |-> JsNum(c - 100)]

QuoteFields == {"c", "d", "dp", "h", "l", "o", "pc"}

QuoteResponses ==
  {NetErr, BadJson, Json(ErrorObject), Json(QuotePayload(45000, 123))}

\* the quote object built by fetchMarketData, or null
fetchMarketData(symbol, resp) ==
  IF FetchRejects(resp) \/ PropertyReadThrows(resp.body)
  THEN JsNull
  ELSE [type |-> "object", symbol |-> symbol,
        current |-> Get(resp.body, "c"),
        change |-> Get(resp.body, "d"),
        changePercent |-> Get(resp.body, "dp"),
        high |-> Get(resp.body, "h"),
        low |-> Get(resp.body, "l"),
        open |-> Get(resp.body, "o"),
        previousClose |-> Get(resp.body, "pc")]

-----------------------------------------------------------------------------
(* News *)

JsStr(k) == [type |-> "string", id |-> k]
JsNaN == [type |-> "nan"]

\* v * 1000 with JavaScript's coercion of the left operand
TimesThousand(v) ==
  CASE v.type = "number" -> JsNum(v.val * 1000)
    [] v.type = "null" -> JsNum(0)
    [] OTHER -> JsNaN

\* new Date(ms).toISOString() throws a RangeError on an invalid date
ToISOStringThrows(ms) == ms.type # "number"
ToISOString(ms) == [type |-> "string", iso |-> ms.val]

\* the k-th item of a provider news response of the given shape; the item at
\* position bad (if any) has no datetime
NewsTime(k, shape) == IF shape = "desc" THEN 500 - k ELSE 500 - k + 3 * (k % 2)

ProviderNewsItem(k, shape, bad) ==
  IF k = bad
  THEN [type |-> "object", headline |-> JsStr(k), summary |-> JsStr(100 + k),
        source |-> JsStr(200 + k), url |-> JsStr(300 + k)]
  ELSE [type |-> "object", headline |-> JsStr(k), summary |-> JsStr(100 + k),
        source |-> JsStr(200 + k), url |-> JsStr(300 + k),
        datetime |-> JsNum(NewsTime(k, shape))]

ProviderNews(n, shape, bad) ==
  Json(JsArray([k \in 1..n |-> ProviderNewsItem(k, shape, bad)]))

NewsShapes == {"desc", "zigzag"}

NewsResponses ==
  {NetErr, BadJson, Json(JsNull), Json(ErrorObject)}
    \cup {ProviderNews(n, shape, bad) :
            n \in 0..MaxNewsLen, shape \in NewsShapes,
            bad \in {0, 1, NewsCap, NewsCap + 1}}

\* the object the map callback builds from one item (lines 615-621)
ConvertNewsItem(item) ==
  [type |-> "object", headline |-> Get(item, "headline"),
   summary |-> Get(item, "summary"), source |-> Get(item, "source"),
   url |-> Get(item, "url"),
   datetime |-> ToISOString(TimesThousand(Get(item, "datetime")))]

\* the response without the slice
NewsSliceAll(items) == items

\* response.slice(0, 20)
NewsSlice(items) == Prefix(items, NewsCap)

\* an exception is raised inside fetchMarketNews' try block
NewsTryThrows(resp) ==
  \/ FetchRejects(resp)
  \/ resp.body.type # "array"
  \/ \E k \in 1..Len(NewsSlice(resp.body.items)) :
       ToISOStringThrows(TimesThousand(Get(NewsSlice(resp.body.items)[k], "datetime")))

\* the convertible items of the slice, converted, the others left out
RECURSIVE ConvertValid(_)
ConvertValid(items) ==
  IF items = <<>> THEN <<>>
  ELSE (IF ToISOStringThrows(TimesThousand(Get(Head(items), "datetime")))
        THEN <<>> ELSE <<ConvertNewsItem(Head(items))>>)
         \o ConvertValid(Tail(items))

\* a fetcher that skips the items it cannot convert
fetchMarketNewsSkipping(resp) ==
  IF FetchRejects(resp) \/ resp.body.type # "array" THEN <<>>
  ELSE ConvertValid(NewsSlice(resp.body.items))

fetchMarketNews(resp) ==
  IF NewsTryThrows(resp)
  THEN <<>>
  ELSE [k \in 1..Len(NewsSlice(resp.body.items)) |->
          ConvertNewsItem(NewsSlice(resp.body.items)[k])]

-----------------------------------------------------------------------------
(* Earnings *)

EarningsEntry(k, shape) ==
  [type |-> "object", symbol |-> JsStr(IF shape = "desc" THEN 50 - k ELSE k)]

ProviderEarnings(m, shape) ==
  Json([type |-> "object",
        earningsCalendar |-> JsArray([k \in 1..m |-> EarningsEntry(k, shape)])])

EarningsResponses ==
  {NetErr, BadJson, Json(JsNull), Json(ErrorObject),
   Json([type |-> "object", earningsCalendar |-> JsNull])}
    \cup {ProviderEarnings(m, shape) : m \in 0..MaxEarnLen, shape \in NewsShapes}

\* response.earningsCalendar?.slice(0, 10)
EarningsSlice(items) == Prefix(items, EarningsCap)

fetchEarningsCalendar(resp) ==
  IF FetchRejects(resp) \/ PropertyReadThrows(resp.body)
  THEN <<>>
  ELSE LET cal == Get(resp.body, "earningsCalendar") IN
       IF cal.type = "array" THEN EarningsSlice(cal.items) ELSE <<>>

-----------------------------------------------------------------------------
(* Texts and the two regular expressions of formatEmailHTML *)

Digits == {"0", "1", "2", "3", "4", "5", "6", "7", "8", "9"}
Uppers == {"A", "B", "C", "D", "E", "F", "G", "H", "I", "J", "K", "L", "M",
           "N", "O", "P", "Q", "R", "S", "T", "U", "V", "W", "X", "Y", "Z"}
\* \s
WhiteSpace == {" ", "\t", "\n", "\r"}
\* [A-Z\s]
UpperOrSpace == Uppers \cup WhiteSpace

\* length of the longest run of characters of cls in s from position p
RECURSIVE Run(_, _, _)
Run(s, p, cls) ==
  IF p <= Len(s) /\ s[p] \in cls THEN 1 + Run(s, p + 1, cls) ELSE 0

\* The ways \d+\.\s+[A-Z\s]+ (followed by \n when tail) matches s at p, as
\* <<d, w, t>>: d digits, the dot, w characters of \s+, t of [A-Z\s]+.
\* \d+ must take the whole digit run, since a dot has to follow it.
HeaderMatches(s, p, tail) ==
  LET d == Run(s, p, Digits) IN
  IF d = 0 \/ p + d > Len(s) \/ s[p + d] # "."
  THEN {}
  ELSE {m \in UNION {{<<d, w, t>> : t \in 1..Run(s, p + d + w + 1, UpperOrSpace)} :
                        w \in 1..Run(s, p + d + 1, WhiteSpace)} :
          tail => /\ p + m[1] + m[2] + m[3] + 1 <= Len(s)
                  /\ s[p + m[1] + m[2] + m[3] + 1] = "\n"}

\* the match a backtracking engine reports: both quantifiers are greedy, and
\* \s+ is tried before [A-Z\s]+
GreedyMatch(ms) ==
  CHOOSE m \in ms : \A o \in ms : o[2] < m[2] \/ (o[2] = m[2] /\ o[3] <= m[3])

\* /\n(?=\d+\.\s+[A-Z\s]+)/ matches at p
IsSeparator(s, p) == s[p] = "\n" /\ HeaderMatches(s, p + 1, FALSE) # {}

\* analysis.split(/\n(?=\d+\.\s+[A-Z\s]+)/): the pieces of s from start on,
\* scanning from p
RECURSIVE SplitFrom(_, _, _)
SplitFrom(s, start, p) ==
  LET seps == {q \in p..Len(s) : IsSeparator(s, q)} IN
  IF seps = {} THEN <<SubSeq(s, start, Len(s))>>
  ELSE LET q == CHOOSE m \in seps : \A o \in seps : m <= o IN
       <<SubSeq(s, start, q - 1)>> \o SplitFrom(s, q + 1, q + 1)

SplitSections(text) == SplitFrom(text, 1, 1)

\* section.match(/^(\d+)\.\s+([A-Z\s]+)/) is not null
SectionMatches(section) == HeaderMatches(section, 1, FALSE) # {}

\* the captures [number, title] of that match
MatchNumber(section) ==
  SubSeq(section, 1, GreedyMatch(HeaderMatches(section, 1, FALSE))[1])

MatchTitle(section) ==
  LET m == GreedyMatch(HeaderMatches(section, 1, FALSE)) IN
  SubSeq(section, m[1] + m[2] + 2, m[1] + m[2] + m[3] + 1)

\* section.replace(/^\d+\.\s+[A-Z\s]+\n/, '')
StripHeader(section) ==
  LET ms == HeaderMatches(section, 1, TRUE) IN
  IF ms = {} THEN section
  ELSE LET m == GreedyMatch(ms) IN
       SubSeq(section, m[1] + m[2] + m[3] + 3, Len(section))

\* the block the map callback of lines 764-792 builds for one chunk; the
\* markup substitutions of lines 770-776 inside the body are left out
RenderSection(section) ==
  IF SectionMatches(section)
  THEN [kind |-> "section", number |-> MatchNumber(section),
        title |-> MatchTitle(section), content |-> StripHeader(section)]
  ELSE [kind |-> "plain", number |-> <<>>, title |-> <<>>, content |-> section]

-----------------------------------------------------------------------------
(* Summary cards *)

\* v >= 0 with JavaScript's coercion: null is 0, undefined is NaN
GreaterOrEqualZero(v) ==
  CASE v.type = "number" -> v.val >= 0
    [] v.type = "null" -> TRUE
    [] OTHER -> FALSE

\* the text of a number of hundredths with two decimals
Fixed2(n) == [type |-> "string", fixed2 |-> n]
Literal(str) == [type |-> "string", lit |-> str]

\* v?.toFixed(2) || fallback
ToFixedOr(v, fallback) ==
  IF v.type \in {"null", "undefined"} THEN fallback ELSE Fixed2(v.val)

\* every quote kept, whatever its symbol
KeepAll(quotes, symbols) == quotes

\* data.marketData.filter(d => CONFIG.symbols.indices.includes(d.symbol))
RECURSIVE FilterBySymbol(_, _)
FilterBySymbol(quotes, symbols) ==
  IF quotes = <<>> THEN <<>>
  ELSE (IF Head(quotes).symbol \in symbols THEN <<Head(quotes)>> ELSE <<>>)
         \o FilterBySymbol(Tail(quotes), symbols)

\* An array method applied to an array gives a result and leaves the array
\* it was called on (the receiver) in some state; aliased says that the
\* result is the receiver itself, not a new array.

\* a filter that overwrites the array it is called on
ArrayFilterInPlace(arr, symbols) ==
  [result |-> FilterBySymbol(arr, symbols),
   receiver |-> FilterBySymbol(arr, symbols), aliased |-> TRUE]

\* Array.prototype.filter: a new array, the receiver stays as it is
ArrayFilter(arr, symbols) ==
  [result |-> FilterBySymbol(arr, symbols), receiver |-> arr, aliased |-> FALSE]

\* Math.abs(q.changePercent || 0), in hundredths
AbsOrZero(v) ==
  IF v.type = "number" THEN (IF v.val < 0 THEN -v.val ELSE v.val) ELSE 0

\* the comparator of line 401 puts b before a when |b| > |a|; the sort is
\* stable, so q goes behind every element that is not smaller
RECURSIVE InsertMover(_, _)
InsertMover(sorted, q) ==
  IF sorted = <<>> THEN <<q>>
  ELSE IF AbsOrZero(Head(sorted).changePercent) >= AbsOrZero(q.changePercent)
       THEN <<Head(sorted)>> \o InsertMover(Tail(sorted), q)
       ELSE <<q>> \o sorted

RECURSIVE SortMovers(_)
SortMovers(arr) ==
  IF arr = <<>> THEN <<>>
  ELSE InsertMover(SortMovers(SubSeq(arr, 1, Len(arr) - 1)), arr[Len(arr)])

\* Array.prototype.sort: sorts the receiver in place and returns it
ArraySort(arr) ==
  [result |-> SortMovers(arr), receiver |-> SortMovers(arr), aliased |-> TRUE]

\* lines 399-402: the value of topMovers, and data after the statement
topMovers(data) ==
  LET filtered == ArrayFilter(data.marketData, Range(Majors))
      sorted == ArraySort(filtered.result)
  IN  [value |-> Prefix(sorted.result, MoversCap),
       data |-> [data EXCEPT !.marketData =
                   IF filtered.aliased THEN sorted.receiver ELSE filtered.receiver]]

\* lines 116-118: the three lists of the prompt, and data after them
PromptLists(data) ==
  LET indicesData == ArrayFilter(data.marketData, Range(Indices))
      sectorsData == ArrayFilter(indicesData.receiver, Range(Sectors))
      majorsData == ArrayFilter(sectorsData.receiver, Range(Majors))
  IN  [value |-> <<indicesData.result, majorsData.result, sectorsData.result>>,
       data |-> [data EXCEPT !.marketData = majorsData.receiver]]

SummaryCard(index) ==
  [symbol |-> index.symbol,
   up |-> GreaterOrEqualZero(index.changePercent),
   price |-> ToFixedOr(index.current, Literal("N/A")),
   percent |-> ToFixedOr(index.changePercent, Fixed2(0))]

SummaryCards(quotes) ==
  LET majorIndices == ArrayFilter(quotes, Range(ConfigIndices)).result IN
  [k \in 1..Len(majorIndices) |-> SummaryCard(majorIndices[k])]

\* data after formatEmailHTML: line 794 is its only array operation on data
DataAfterFormat(data) ==
  [data EXCEPT !.marketData = ArrayFilter(data.marketData, Range(ConfigIndices)).receiver]

formatEmailHTML(text, data) ==
  LET sections == SplitSections(text) IN
  [chunks |-> sections,
   blocks |-> [k \in 1..Len(sections) |-> RenderSection(sections[k])],
   cards |-> SummaryCards(data.marketData)]

-----------------------------------------------------------------------------
(* The section rendering of the variant of formatEmailHTML that looks the  *)
(* title up in a table (lines 196-229 and 379-380)                         *)

\* s.split('\n'): the lines of s from start on, scanning from p
RECURSIVE LinesFrom(_, _, _)
LinesFrom(s, start, p) ==
  LET breaks == {q \in p..Len(s) : s[q] = "\n"} IN
  IF breaks = {} THEN <<SubSeq(s, start, Len(s))>>
  ELSE LET q == CHOOSE m \in breaks : \A o \in breaks : m <= o IN
       <<SubSeq(s, start, q - 1)>> \o LinesFrom(s, q + 1, q + 1)

FirstLine(s) == Head(LinesFrom(s, 1, 1))

\* lines.join('\n')
RECURSIVE JoinLines(_)
JoinLines(chunks) ==
  IF Len(chunks) = 0 THEN <<>>
  ELSE IF Len(chunks) = 1 THEN chunks[1]
  ELSE chunks[1] \o <<"\n">> \o JoinLines(Tail(chunks))

\* s.trim()
Trim(s) ==
  LET inner == {k \in 1..Len(s) : s[k] \notin WhiteSpace} IN
  IF inner = {} THEN <<>>
  ELSE SubSeq(s, CHOOSE a \in inner : \A b \in inner : a <= b,
                 CHOOSE a \in inner : \A b \in inner : a >= b)

\* the keys of sectionIcons
sectionIcons ==
  { <<"E", "X", "E", "C", "U", "T", "I", "V", "E", " ", "S", "U", "M", "M", "A", "R", "Y">>,
    <<"M", "A", "J", "O", "R", " ", "I", "N", "D", "I", "C", "E", "S", " ", "A", "N", "A", "L", "Y", "S", "I", "S">>,
    <<"T", "O", "P", " ", "H", "E", "A", "D", "L", "I", "N", "E", "S">>,
    <<"S", "E", "C", "T", "O", "R", " ", "P", "E", "R", "F", "O", "R", "M", "A", "N", "C", "E">>,
    <<"P", "R", "E", "-", "M", "A", "R", "K", "E", "T", " ", "M", "O", "V", "E", "R", "S">>,
    <<"E", "A", "R", "N", "I", "N", "G", "S", " ", "C", "A", "L", "E", "N", "D", "A", "R">>,
    <<"E", "C", "O", "N", "O", "M", "I", "C", " ", "E", "V", "E", "N", "T", "S">>,
    <<"R", "I", "S", "K", " ", "A", "S", "S", "E", "S", "S", "M", "E", "N", "T">>,
    <<"T", "R", "A", "D", "I", "N", "G", " ", "O", "P", "P", "O", "R", "T", "U", "N", "I", "T", "I", "E", "S">>,
    <<"B", "O", "T", "T", "O", "M", " ", "L", "I", "N", "E">> }

\* /\n(?=[A-Z\s]+\n)/ matches at p: a line break follows at least one
\* character of [A-Z\s]
IsTitleSeparator(s, p) ==
  /\ s[p] = "\n"
  /\ \E t \in 1..Run(s, p + 1, UpperOrSpace) :
       p + t + 1 <= Len(s) /\ s[p + t + 1] = "\n"

\* analysis.split(/\n(?=[A-Z\s]+\n)/)
RECURSIVE SplitTitlesFrom(_, _, _)
SplitTitlesFrom(s, start, p) ==
  LET seps == {q \in p..Len(s) : IsTitleSeparator(s, q)} IN
  IF seps = {} THEN <<SubSeq(s, start, Len(s))>>
  ELSE LET q == CHOOSE m \in seps : \A o \in seps : m <= o IN
       <<SubSeq(s, start, q - 1)>> \o SplitTitlesFrom(s, q + 1, q + 1)

\* the block of one chunk, or the empty string (here <<>>) for a chunk whose
\* title is not a key of sectionIcons; the markup substitutions inside the
\* body are left out
RenderTitledSection(section) ==
  LET lines == LinesFrom(section, 1, 1)
      title == Trim(lines[1])
  IN  IF title \in sectionIcons
      THEN <<[kind |-> "section", number |-> <<>>, title |-> title,
              content |-> JoinLines(Tail(lines))]>>
      ELSE <<>>

\* sections.map(...).filter(s => s)
RECURSIVE NonEmptyBlocks(_)
NonEmptyBlocks(sections) ==
  IF sections = <<>> THEN <<>>
  ELSE RenderTitledSection(Head(sections)) \o NonEmptyBlocks(Tail(sections))

\* the document of the variant: its chunks and the blocks it keeps
formatTitledSections(text) ==
  [chunks |-> SplitTitlesFrom(text, 1, 1),
   blocks |-> NonEmptyBlocks(SplitTitlesFrom(text, 1, 1)),
   cards |-> <<>>]

-----------------------------------------------------------------------------
(* Analysis texts *)

TextFooBar == <<"1", ".", " ", "F", "O", "O", "\n", "b", "o", "d", "y", "1", "\n", "2", ".", " ", "B", "A", "R", "\n", "b", "o", "d", "y", "2">>

TextMixedCase == <<"i", "n", "t", "r", "o", "\n", "1", ".", " ", "F", "o", "o", " ", "B", "a", "r", "\n", "r", "e", "s", "t">>

TextPreMarket == <<"x", "\n", "5", ".", " ", "P", "R", "E", "-", "M", "A", "R", "K", "E", "T", " ", "M", "O", "V", "E", "R", "S", "\n", "y">>

TextDigitTitle == <<"x", "\n", "2", ".", " ", "Q", "3", " ", "R", "E", "S", "U", "L", "T", "S", "\n", "y">>

TextSummary == <<"1", ".", " ", "E", "X", "E", "C", "U", "T", "I", "V", "E", " ", "S", "U", "M", "M", "A", "R", "Y", "\n", "M", "a", "r", "k", "e", "t", "s", " ", "r", "o", "s", "e", ".">>

\* the titles of the numbered sections the prompt of generateAnalysis asks for
SectionTitles ==
  << <<"E", "X", "E", "C", "U", "T", "I", "V", "E", " ", "S", "U", "M", "M", "A", "R", "Y">>,
     <<"M", "A", "R", "K", "E", "T", " ", "O", "V", "E", "R", "V", "I", "E", "W">>,
     <<"O", "V", "E", "R", "N", "I", "G", "H", "T", " ", "N", "E", "W", "S", " ", "A", "N", "A", "L", "Y", "S", "I", "S">>,
     <<"S", "E", "C", "T", "O", "R", " ", "A", "N", "A", "L", "Y", "S", "I", "S">>,
     <<"P", "R", "E", "-", "M", "A", "R", "K", "E", "T", " ", "M", "O", "V", "E", "R", "S">>,
     <<"E", "A", "R", "N", "I", "N", "G", "S", " ", "H", "I", "G", "H", "L", "I", "G", "H", "T", "S">>,
     <<"K", "E", "Y", " ", "E", "C", "O", "N", "O", "M", "I", "C", " ", "E", "V", "E", "N", "T", "S">>,
     <<"R", "I", "S", "K", " ", "F", "A", "C", "T", "O", "R", "S">>,
     <<"T", "R", "A", "D", "I", "N", "G", " ", "O", "P", "P", "O", "R", "T", "U", "N", "I", "T", "I", "E", "S">>,
     <<"B", "O", "T", "T", "O", "M", " ", "L", "I", "N", "E">> >>

DigitChars == <<"0", "1", "2", "3", "4", "5", "6", "7", "8", "9">>

\* the decimal numeral of k, as the prompt numbers its sections
NumberText(k) ==
  IF k < 10 THEN <<DigitChars[k + 1]>>
  ELSE <<DigitChars[(k \div 10) + 1], DigitChars[(k % 10) + 1]>>

\* the header line of section k as the prompt writes it: "<k>. <TITLE>"
PromptHeader(k) == NumberText(k) \o <<".", " ">> \o SectionTitles[k]

\* bodies a response may put under a header: none, a bullet, a sentence,
\* and an indented bullet followed by a blank line as in the prompt itself
BodyNone == <<>>
BodyBullet == <<"-", " ", "x">>
BodySentence == <<"M", "a", "r", "k", "e", "t", "s", " ", "r", "o", "s", "e", ".">>
BodyAsPrompt == <<" ", " ", " ", "-", " ", "x", "\n">>
EchoBodies == {BodyNone, BodyBullet, BodySentence, BodyAsPrompt}

\* a response that echoes the first n headers of the prompt in order, each
\* followed by the body
RECURSIVE EchoResponse(_, _)
EchoResponse(body, n) ==
  IF n = 0 THEN <<>>
  ELSE EchoResponse(body, n - 1)
         \o (IF n > 1 THEN <<"\n">> ELSE <<>>)
         \o PromptHeader(n) \o <<"\n">> \o body

EchoTexts == {EchoResponse(body, Len(SectionTitles)) : body \in EchoBodies}

\* a response with unnumbered titles, the first of them not in the table
TextTitled == <<"N", "O", "T", "E", "S", "\n", "b", "o", "d", "y", "1", "\n", "B", "O", "T", "T", "O", "M", " ", "L", "I", "N", "E", "\n", "b", "o", "d", "y", "2">>

Alphabet == {"1", ".", " ", "\n", "A", "a", "-"}

ShortTexts == UNION {[1..n -> Alphabet] : n \in 0..MaxTextLen}

NamedTexts == {TextFooBar, TextMixedCase, TextPreMarket, TextDigitTitle, TextSummary}

ParserTexts == NamedTexts \cup EchoTexts \cup {TextTitled} \cup ShortTexts

-----------------------------------------------------------------------------
(* The run of main *)

PipelineNewsResponses ==
  {NetErr, Json(ErrorObject), ProviderNews(1, "desc", 0),
   ProviderNews(NewsCap + 1, "zigzag", 0)}

PipelineEarningsResponses ==
  {NetErr, Json(ErrorObject), ProviderEarnings(1, "desc"),
   ProviderEarnings(EarningsCap + 1, "zigzag")}

SynthesisResults == {[kind |-> "error", text |-> <<>>], [kind |-> "text", text |-> TextSummary]}

MailResults == {"accepted", "rejected"}

\* what the collaborator answered, as logged: 1 success, 0 failure
SynthesisOutcome(result) == IF result.kind = "text" THEN 1 ELSE 0
MailOutcome(result) == IF result = "accepted" THEN 1 ELSE 0

\* lines 645-649
allSymbols == ConfigIndices \o ConfigMajors \o ConfigSectors

\* an event of the run: for a quote fetch k is the loop index and sym the
\* symbol of the request's URL; for the end of the synthesis call and of the
\* mail send k is 1 on success and 0 on failure
Ev(name, k, at) ==
  [ev |-> name, k |-> k, at |-> at,
   sym |-> IF name \in {"quoteStart", "quoteEnd"} THEN allSymbols[k] ELSE ""]

\* main without its configuration check
ConfigUnchecked == TRUE

\* line 906: every required key is set
ConfigComplete == config = RequiredKeys

\* the push without its guard
PushAlways(list, data) == Append(list, data)

\* line 654: if (data) marketData.push(data)
Push(list, data) == IF Truthy(data) THEN Append(list, data) ELSE list

\* a delay only after a fetch that added a quote
DelayAfterSuccessOnly(k) == k < Len(allSymbols) /\ marketData' # marketData

\* the delay without its exception for the last symbol
DelayAfterEvery(k) == k <= Len(allSymbols)

\* line 656: i < allSymbols.length - 1, for the 1-based index k
DelayNeeded(k) == k < Len(allSymbols)

\* a timer that is never started
TimerNotScheduled == FALSE

\* line 657: setTimeout(resolve, 1000) starts the timer whose expiry resolves
\* the awaited promise
TimerScheduled == TRUE

\* the callees without their catch blocks, or with a catch that swallows
QuoteFetchUncaught(resp) == FetchRejects(resp)
NewsFetchUncaught(resp) == FetchRejects(resp)
SynthesisErrorSwallowed(result) == FALSE

\* what escapes each callee: the try/catch of fetchMarketData, fetchMarketNews
\* and fetchEarningsCalendar returns a value for every exception, the catch
\* of generateAnalysis and of sendEmail throws the error again
EarningsFetchUncaught(resp) == FetchRejects(resp)
QuoteFetchRaises(resp) == FALSE
NewsFetchRaises(resp) == FALSE
EarningsFetchRaises(resp) == FALSE
SynthesisRaises(result) == result.kind = "error"
MailRaises(result) == result = "rejected"

\* the news and the earnings fetch issued together
NewsAndEarningsTogether == {<<"news", 0>>, <<"earnings", 0>>}

\* the requests issued when the loop over the symbols has ended (line 661)
IssuedAfterLoop == {<<"news", 0>>}

\* the requests issued by one call of sendEmail (line 892)
IssuedBySendEmail == {<<"mail", 0>>}

\* main's catch block: process.exit(1)
Abort(done, events) ==
  /\ outstanding' = outstanding \ done
  /\ log' = log \o events \o <<Ev("exit", 1, clock)>>
  /\ exitStatus' = <<1>>
  /\ pc' = "exited"

\* the loop of lines 652-659 goes on with index k, the request `done` having
\* completed: the next quote fetch, or after the last symbol the news fetch
Resume(k, done, events, at) ==
  /\ i' = k
  /\ IF k <= Len(allSymbols)
     THEN /\ outstanding' = (outstanding \ done) \cup {<<"quote", k>>}
          /\ log' = log \o events \o <<Ev("quoteStart", k, at)>>
          /\ pc' = "quoteWait"
     ELSE /\ outstanding' = (outstanding \ done) \cup IssuedAfterLoop
          /\ log' = log \o events \o <<Ev("newsStart", 0, at)>>
          /\ pc' = "newsWait"

Init ==
  /\ config \in SUBSET RequiredKeys
  /\ pc = "start"
  /\ i = 0
  /\ marketData = <<>>
  /\ quoteResp = <<>>
  /\ news = <<>>
  /\ newsResp = <<>>
  /\ earnings = <<>>
  /\ earnResp = <<>>
  /\ snapshot = <<>>
  /\ analysis = <<>>
  /\ htmlContent = <<>>
  /\ outstanding = {}
  /\ timerPending = FALSE
  /\ clock = 0
  /\ log = <<>>
  /\ exitStatus = <<>>

\* main up to its first await: the configuration check, then
\* collectMarketData up to the first quote fetch
MainStart ==
  /\ pc = "start"
  /\ IF ~ConfigComplete
     THEN /\ Abort({}, <<>>)
          /\ UNCHANGED <<i, marketData>>
     ELSE /\ marketData' = <<>>
          /\ Resume(1, {}, <<Ev("aggregateStart", 0, clock)>>, clock)
          /\ UNCHANGED exitStatus
  /\ UNCHANGED <<config, quoteResp, news, newsResp, earnings, earnResp,
                 snapshot, analysis, htmlContent, timerPending, clock>>

\* the quote fetch of symbol i completes
QuoteFetchDone ==
  /\ pc = "quoteWait"
  /\ \E resp \in QuoteResponses :
       /\ quoteResp' = Append(quoteResp, resp)
       /\ IF QuoteFetchRaises(resp)
          THEN /\ Abort({<<"quote", i>>}, <<Ev("quoteEnd", i, clock)>>)
               /\ UNCHANGED <<i, marketData, timerPending>>
          ELSE /\ marketData' = Push(marketData, fetchMarketData(allSymbols[i], resp))
               /\ UNCHANGED exitStatus
               /\ IF DelayNeeded(i)
                  THEN /\ timerPending' = TimerScheduled
                       /\ outstanding' = outstanding \ {<<"quote", i>>}
                       /\ log' = log \o <<Ev("quoteEnd", i, clock), Ev("delayStart", i, clock)>>
                       /\ pc' = "delay"
                       /\ UNCHANGED i
                  ELSE /\ Resume(i + 1, {<<"quote", i>>}, <<Ev("quoteEnd", i, clock)>>, clock)
                       /\ UNCHANGED timerPending
  /\ UNCHANGED <<config, news, newsResp, earnings, earnResp, snapshot,
                 analysis, htmlContent, clock>>

\* the timer of line 657 fires
DelayDone ==
  /\ pc = "delay"
  /\ timerPending
  /\ timerPending' = FALSE
  /\ clock' = clock + DelayMs
  /\ Resume(i + 1, {}, <<Ev("delayEnd", i, clock + DelayMs)>>, clock + DelayMs)
  /\ UNCHANGED <<config, marketData, quoteResp, news, newsResp, earnings,
                 earnResp, snapshot, analysis, htmlContent, exitStatus>>

\* the news fetch completes; the earnings fetch is issued (line 662)
NewsFetchDone ==
  /\ pc = "newsWait"
  /\ \E resp \in PipelineNewsResponses :
       /\ newsResp' = <<resp>>
       /\ IF NewsFetchRaises(resp)
          THEN /\ Abort({<<"news", 0>>}, <<Ev("newsEnd", 0, clock)>>)
               /\ UNCHANGED news
          ELSE /\ news' = fetchMarketNews(resp)
               /\ outstanding' = (outstanding \ {<<"news", 0>>}) \cup {<<"earnings", 0>>}
               /\ log' = log \o <<Ev("newsEnd", 0, clock), Ev("earningsStart", 0, clock)>>
               /\ pc' = "earningsWait"
               /\ UNCHANGED exitStatus
  /\ UNCHANGED <<config, i, marketData, quoteResp, earnings, earnResp,
                 snapshot, analysis, htmlContent, timerPending, clock>>

\* the earnings fetch completes: collectMarketData returns the snapshot,
\* generateAnalysis builds the prompt and issues the synthesis call
EarningsFetchDone ==
  /\ pc = "earningsWait"
  /\ \E resp \in PipelineEarningsResponses :
       /\ earnResp' = <<resp>>
       /\ IF EarningsFetchRaises(resp)
          THEN /\ Abort({<<"earnings", 0>>}, <<Ev("earningsEnd", 0, clock)>>)
               /\ UNCHANGED <<earnings, snapshot>>
          ELSE /\ earnings' = fetchEarningsCalendar(resp)
               /\ snapshot' = <<[timestamp |-> ToISOString(JsNum(clock)),
                                 marketData |-> marketData,
                                 news |-> news,
                                 earnings |-> fetchEarningsCalendar(resp)]>>
               /\ outstanding' = (outstanding \ {<<"earnings", 0>>}) \cup {<<"synthesis", 0>>}
               /\ log' = log \o <<Ev("earningsEnd", 0, clock), Ev("aggregateEnd", 0, clock),
                                  Ev("promptBuilt", 0, clock), Ev("synthesisStart", 0, clock)>>
               /\ pc' = "synthesisWait"
               /\ UNCHANGED exitStatus
  /\ UNCHANGED <<config, i, marketData, quoteResp, news, newsResp, analysis,
                 htmlContent, timerPending, clock>>

\* the synthesis call completes: on success formatEmailHTML renders the
\* document and sendEmail issues the mail send
SynthesisDone ==
  /\ pc = "synthesisWait"
  /\ \E result \in SynthesisResults :
       IF SynthesisRaises(result)
       THEN /\ Abort({<<"synthesis", 0>>}, <<Ev("synthesisEnd", SynthesisOutcome(result), clock)>>)
            /\ UNCHANGED <<analysis, htmlContent, snapshot>>
       ELSE /\ analysis' = result.text
            /\ htmlContent' = <<formatEmailHTML(result.text, snapshot[1])>>
            /\ snapshot' = <<DataAfterFormat(snapshot[1])>>
            /\ outstanding' = (outstanding \ {<<"synthesis", 0>>}) \cup IssuedBySendEmail
            /\ log' = log \o <<Ev("synthesisEnd", SynthesisOutcome(result), clock), Ev("renderStart", 0, clock),
                               Ev("renderEnd", 0, clock), Ev("mailStart", 0, clock)>>
            /\ pc' = "mailWait"
            /\ UNCHANGED exitStatus
  /\ UNCHANGED <<config, i, marketData, quoteResp, news, newsResp, earnings,
                 earnResp, timerPending, clock>>

\* the mail send completes
MailDone ==
  /\ pc = "mailWait"
  /\ \E result \in MailResults :
       IF MailRaises(result)
       THEN Abort(IssuedBySendEmail, <<Ev("mailEnd", MailOutcome(result), clock)>>)
       ELSE /\ outstanding' = outstanding \ IssuedBySendEmail
            /\ log' = log \o <<Ev("mailEnd", MailOutcome(result), clock), Ev("complete", 0, clock)>>
            /\ exitStatus' = <<0>>
            /\ pc' = "done"
  /\ UNCHANGED <<config, i, marketData, quoteResp, news, newsResp, earnings,
                 earnResp, snapshot, analysis, htmlContent, timerPending, clock>>

Next ==
  \/ MainStart
  \/ QuoteFetchDone
  \/ DelayDone
  \/ NewsFetchDone
  \/ EarningsFetchDone
  \/ SynthesisDone
  \/ MailDone

Spec == Init /\ [][Next]_vars

\* The run of main when every external call eventually returns or fails and
\* the timer eventually expires: the event loop runs a continuation once the
\* promise it awaits is settled.
SpecLive ==
  /\ Init /\ [][Next]_vars
  /\ WF_vars(MainStart)
  /\ WF_vars(QuoteFetchDone)
  /\ WF_vars(DelayDone)
  /\ WF_vars(NewsFetchDone)
  /\ WF_vars(EarningsFetchDone)
  /\ WF_vars(SynthesisDone)
  /\ WF_vars(MailDone)

-----------------------------------------------------------------------------
(* formatEmailHTML on its own: the document of every analysis text *)

EmptySnapshot ==
  [timestamp |-> ToISOString(JsNum(0)), marketData |-> <<>>, news |-> <<>>,
   earnings |-> <<>>]

InitParse ==
  /\ config = RequiredKeys
  /\ pc = "format"
  /\ i = 0
  /\ marketData = <<>>
  /\ quoteResp = <<>>
  /\ news = <<>>
  /\ newsResp = <<>>
  /\ earnings = <<>>
  /\ earnResp = <<>>
  /\ snapshot = <<EmptySnapshot>>
  /\ analysis \in ParserTexts
  /\ htmlContent = <<>>
  /\ outstanding = {}
  /\ timerPending = FALSE
  /\ clock = 0
  /\ log = <<>>
  /\ exitStatus = <<>>

FormatCall ==
  /\ pc = "format"
  /\ htmlContent' = <<formatEmailHTML(analysis, snapshot[1])>>
  /\ snapshot' = <<DataAfterFormat(snapshot[1])>>
  /\ pc' = "formatted"
  /\ UNCHANGED <<config, i, marketData, quoteResp, news, newsResp, earnings,
                 earnResp, analysis, outstanding, timerPending,
                 clock, log, exitStatus>>

\* the variant with the title table on the same text
FormatTitledCall ==
  /\ pc = "format"
  /\ htmlContent' = <<formatTitledSections(analysis)>>
  /\ pc' = "formattedTitled"
  /\ UNCHANGED <<config, i, marketData, quoteResp, news, newsResp, earnings,
                 earnResp, snapshot, analysis, outstanding, timerPending,
                 clock, log, exitStatus>>

NextParse == FormatCall \/ FormatTitledCall

SpecParse == InitParse /\ [][NextParse]_vars

-----------------------------------------------------------------------------
(* fetchMarketNews and fetchEarningsCalendar on their own: the result for  *)
(* every provider response                                                 *)

InitFetch ==
  /\ config = RequiredKeys
  /\ pc = "fetch"
  /\ i = 0
  /\ marketData = <<>>
  /\ quoteResp = <<>>
  /\ news = <<>>
  /\ earnings = <<>>
  /\ newsResp \in {<<r>> : r \in NewsResponses}
  /\ earnResp \in {<<r>> : r \in EarningsResponses}
  /\ snapshot = <<>>
  /\ analysis = <<>>
  /\ htmlContent = <<>>
  /\ outstanding = {}
  /\ timerPending = FALSE
  /\ clock = 0
  /\ log = <<>>
  /\ exitStatus = <<>>

NewsCall ==
  /\ pc = "fetch"
  /\ news' = fetchMarketNews(newsResp[1])
  /\ pc' = "fetchedNews"
  /\ UNCHANGED <<config, i, marketData, quoteResp, newsResp, earnings,
                 earnResp, snapshot, analysis, htmlContent, outstanding,
                 timerPending, clock, log, exitStatus>>

EarningsCall ==
  /\ pc = "fetchedNews"
  /\ earnings' = fetchEarningsCalendar(earnResp[1])
  /\ pc' = "fetchedBoth"
  /\ UNCHANGED <<config, i, marketData, quoteResp, news, newsResp, earnResp,
                 snapshot, analysis, htmlContent, outstanding, timerPending,
                 clock, log, exitStatus>>

NextFetch == NewsCall \/ EarningsCall

SpecFetch == InitFetch /\ [][NextFetch]_vars

-----------------------------------------------------------------------------
(* The stages that read the snapshot, on their own: the prompt lists, the  *)
(* summary cards and the top movers of every snapshot                      *)

\* a quote of a symbol the provider does not know: every field null
NullQuote ==
  [type |-> "object", c |-> JsNull, d |-> JsNull, dp |-> JsNull, h |-> JsNull,
   l |-> JsNull, o |-> JsNull, pc |-> JsNull]

RenderQuoteResponses ==
  {NetErr, Json(ErrorObject), Json(NullQuote), Json(QuotePayload(45000, 123)),
   Json(QuotePayload(30000, -250))}

\* the symbols of the rendered snapshots: one major more than in the run of
\* main, so that the movers have an order
RenderSymbols == ConfigIndices \o Prefix(Majors, NumMajors + 1) \o ConfigSectors

\* the list the loop of lines 652-659 builds from the responses to the first
\* n fetches
RECURSIVE CollectQuotes(_, _, _)
CollectQuotes(symbols, resps, n) ==
  IF n = 0 THEN <<>>
  ELSE Push(CollectQuotes(symbols, resps, n - 1), fetchMarketData(symbols[n], resps[n]))

\* a text in which no header is found
TextNoHeader == <<"F", "l", "a", "t", ".">>

RenderTexts == {TextSummary, TextNoHeader}

InitRender ==
  /\ config = RequiredKeys
  /\ pc = "render"
  /\ i = Len(RenderSymbols)
  /\ quoteResp \in [1..Len(RenderSymbols) -> RenderQuoteResponses]
  /\ marketData = CollectQuotes(RenderSymbols, quoteResp, Len(RenderSymbols))
  /\ newsResp = <<ProviderNews(2, "zigzag", 0)>>
  /\ news = fetchMarketNews(newsResp[1])
  /\ earnResp = <<ProviderEarnings(2, "desc")>>
  /\ earnings = fetchEarningsCalendar(earnResp[1])
  /\ snapshot = <<[timestamp |-> ToISOString(JsNum(0)), marketData |-> marketData,
                   news |-> news, earnings |-> earnings]>>
  /\ analysis \in RenderTexts
  /\ htmlContent = <<>>
  /\ outstanding = {}
  /\ timerPending = FALSE
  /\ clock = 0
  /\ log = <<>>
  /\ exitStatus = <<>>

\* generateAnalysis builds the lists of its prompt
PromptCall ==
  /\ pc = "render"
  /\ snapshot' = <<PromptLists(snapshot[1]).data>>
  /\ pc' = "prompted"
  /\ UNCHANGED <<config, i, marketData, quoteResp, news, newsResp, earnings,
                 earnResp, analysis, htmlContent, outstanding, timerPending,
                 clock, log, exitStatus>>

\* formatEmailHTML renders the sections and the summary cards
CardsCall ==
  /\ pc = "prompted"
  /\ htmlContent' = <<formatEmailHTML(analysis, snapshot[1])>>
  /\ snapshot' = <<DataAfterFormat(snapshot[1])>>
  /\ pc' = "carded"
  /\ UNCHANGED <<config, i, marketData, quoteResp, news, newsResp, earnings,
                 earnResp, analysis, outstanding, timerPending, clock, log,
                 exitStatus>>

\* the top movers are selected
MoversCall ==
  /\ pc = "carded"
  /\ htmlContent' = htmlContent \o <<[movers |-> topMovers(snapshot[1]).value]>>
  /\ snapshot' = <<topMovers(snapshot[1]).data>>
  /\ pc' = "moved"
  /\ UNCHANGED <<config, i, marketData, quoteResp, news, newsResp, earnings,
                 earnResp, analysis, outstanding, timerPending, clock, log,
                 exitStatus>>

NextRender == PromptCall \/ CardsCall \/ MoversCall

SpecRender == InitRender /\ [][NextRender]_vars

-----------------------------------------------------------------------------
(* Vocabulary of the properties *)

\* the configured symbol order: indices, then majors, then sectors
ExpectedOrder ==
  SubSeq(Indices, 1, NumIndices) \o SubSeq(Majors, 1, NumMajors)
    \o SubSeq(Sectors, 1, NumSectors)

ExpectedN == Len(ExpectedOrder)

Positions(name) == {p \in DOMAIN log : log[p].ev = name}
Count(name) == Cardinality(Positions(name))
Logged(name) == Positions(name) # {}
LoggedWith(name, k) == \E p \in Positions(name) : log[p].k = k

Ended == pc \in {"done", "exited"}

\* C1: the quote fetches are issued one at a time in the configured order;
\* the fetch of symbol j+1 starts only after the fetch of symbol j has
\* completed and a delay of DelayMs started after that completion has run
\* out; N symbols give N fetches and N-1 delays, none after the last fetch.
C1_SequentialQuotes ==
  /\ \A p \in Positions("quoteStart") :
       /\ log[p].k = Cardinality({q \in Positions("quoteStart") : q <= p})
       /\ log[p].k <= ExpectedN
       /\ log[p].sym = ExpectedOrder[log[p].k]
       /\ \/ p = Len(log) /\ pc = "quoteWait"
          \/ p < Len(log) /\ log[p + 1].ev = "quoteEnd" /\ log[p + 1].k = log[p].k
       /\ log[p].k > 1 =>
            /\ p > 3
            /\ log[p - 1].ev = "delayEnd" /\ log[p - 1].k = log[p].k - 1
            /\ log[p - 2].ev = "delayStart" /\ log[p - 2].k = log[p].k - 1
            /\ log[p - 3].ev = "quoteEnd" /\ log[p - 3].k = log[p].k - 1
            /\ log[p - 1].at >= log[p - 2].at + DelayMs
            /\ log[p - 2].at >= log[p - 3].at
            /\ log[p].at >= log[p - 3].at + DelayMs
  /\ \A p \in Positions("delayStart") : log[p].k < ExpectedN
  /\ Count("delayStart") <= ExpectedN - 1
  /\ Logged("newsStart") =>
       /\ Count("quoteStart") = ExpectedN
       /\ Count("quoteEnd") = ExpectedN
       /\ Count("delayStart") = ExpectedN - 1
       /\ Count("delayEnd") = ExpectedN - 1
       /\ \A p \in Positions("newsStart") :
            log[p - 1].ev = "quoteEnd" /\ log[p - 1].k = ExpectedN

\* the loop has ended after fetches that failed and fetches that succeeded
C1_Witness ==
  /\ Logged("newsStart")
  /\ Count("delayEnd") = ExpectedN - 1
  /\ \E j \in 1..Len(quoteResp) : FetchRejects(quoteResp[j])
  /\ \E j \in 1..Len(quoteResp) : ~FetchRejects(quoteResp[j])

\* the quote fetch of the j-th symbol returned a quote (fetchMarketData did
\* not return null)
QuoteFetchSucceeded(j) ==
  fetchMarketData(ExpectedOrder[j], quoteResp[j]) # JsNull

\* the symbols, in order, of the successful fetches among the first n
RECURSIVE SucceededSymbols(_)
SucceededSymbols(n) ==
  IF n = 0 THEN <<>>
  ELSE SucceededSymbols(n - 1)
         \o (IF QuoteFetchSucceeded(n) THEN <<ExpectedOrder[n]>> ELSE <<>>)

\* C2: the quote list holds one entry per symbol whose fetch succeeded, in
\* configured order, and nothing else: no entry, null or placeholder, for a
\* symbol whose fetch failed, so it is shorter than N when a fetch failed.
C2_QuotesAreSuccesses ==
  /\ Len(quoteResp) <= ExpectedN
  /\ Len(marketData) = Cardinality({j \in 1..Len(quoteResp) : QuoteFetchSucceeded(j)})
  /\ [m \in 1..Len(marketData) |-> Get(marketData[m], "symbol")]
       = SucceededSymbols(Len(quoteResp))
  /\ \A m \in 1..Len(marketData) : marketData[m].type = "object"
  /\ \A j \in 1..Len(quoteResp) :
       IF QuoteFetchSucceeded(j)
       THEN \E m \in 1..Len(marketData) :
              marketData[m] = fetchMarketData(ExpectedOrder[j], quoteResp[j])
       ELSE \A m \in 1..Len(marketData) :
              Get(marketData[m], "symbol") # ExpectedOrder[j]
  /\ snapshot # <<>> =>
       /\ Len(quoteResp) = ExpectedN
       /\ snapshot[1].marketData = marketData
       /\ (\E j \in 1..ExpectedN : ~QuoteFetchSucceeded(j))
            => Len(snapshot[1].marketData) < ExpectedN

\* a snapshot after a failed fetch followed by a successful one
C2_Witness ==
  /\ snapshot # <<>>
  /\ ~QuoteFetchSucceeded(1)
  /\ QuoteFetchSucceeded(ExpectedN)
  /\ Len(snapshot[1].marketData) >= 1

\* C3: a failed quote fetch never aborts the batch: whatever fetches fail,
\* the run is never ended inside the aggregation, every symbol is fetched,
\* the news and earnings fetches are issued afterwards, and collectMarketData
\* returns a snapshot with its four fields.
C3_FailureNeverAborts ==
  /\ (ConfigComplete /\ Logged("exit")) => Logged("aggregateEnd")
  /\ (~Ended) => ENABLED Next
  /\ \A p \in Positions("quoteEnd") :
       log[p].k < ExpectedN =>
         \/ pc = "delay" /\ log[p].k = i
         \/ \E q \in Positions("quoteStart") : q > p /\ log[q].k = log[p].k + 1
  /\ Logged("aggregateEnd") =>
       /\ Count("quoteStart") = ExpectedN
       /\ Count("quoteEnd") = ExpectedN
       /\ Count("newsStart") = 1
       /\ Count("earningsStart") = 1
       /\ \A p \in Positions("newsStart") : \A q \in Positions("quoteEnd") : q < p
       /\ \A p \in Positions("earningsStart") : \A q \in Positions("newsStart") : q < p
       /\ Len(snapshot) = 1
       /\ DOMAIN snapshot[1] = {"timestamp", "marketData", "news", "earnings"}

\* the run went through although every quote fetch failed
C3_Witness ==
  /\ pc = "done"
  /\ Len(quoteResp) = ExpectedN
  /\ \A j \in 1..ExpectedN : FetchRejects(quoteResp[j])
  /\ snapshot[1].marketData = <<>>

\* a payload that is not JSON, or a JSON object without the quote fields
MalformedQuotePayload(resp) ==
  \/ resp.kind = "badjson"
  \/ /\ resp.kind = "json"
     /\ resp.body.type = "object"
     /\ DOMAIN resp.body \cap QuoteFields = {}

\* C4: a malformed quote payload is a fetch failure: fetchMarketData
\* returns null for it and the symbol is absent from the quote list.
C4_MalformedIsFailure ==
  \A j \in 1..Len(quoteResp) :
    MalformedQuotePayload(quoteResp[j]) =>
      /\ fetchMarketData(ExpectedOrder[j], quoteResp[j]) = JsNull
      /\ \A m \in 1..Len(marketData) : Get(marketData[m], "symbol") # ExpectedOrder[j]

\* the requests, and the events that issue and complete them
RequestStarts == {"quoteStart", "newsStart", "earningsStart", "synthesisStart", "mailStart"}

EndOf(start) ==
  CASE start = "quoteStart" -> "quoteEnd"
    [] start = "newsStart" -> "newsEnd"
    [] start = "earningsStart" -> "earningsEnd"
    [] start = "synthesisStart" -> "synthesisEnd"
    [] start = "mailStart" -> "mailEnd"

\* the request issued at position p of the log has completed before position q
CompletedBetween(p, q) ==
  \E r \in DOMAIN log :
    /\ p < r /\ r < q
    /\ log[r].ev = EndOf(log[p].ev)
    /\ log[p].ev = "quoteStart" => log[r].k = log[p].k

\* the stages of main, by the events that open and close them
StageOrder ==
  <<"aggregateStart", "aggregateEnd", "promptBuilt", "synthesisStart",
    "synthesisEnd", "renderStart", "renderEnd", "mailStart", "mailEnd">>

\* C5: the stages run in the order aggregate, build prompt and synthesize,
\* parse and render, deliver, each after the previous one has completed; at
\* most one external request is outstanding in every state; the news fetch
\* starts after the last quote fetch has completed and the earnings fetch
\* after the news fetch has completed.
C5_OneRequestAtATime ==
  /\ Cardinality(outstanding) <= 1
  /\ \A p \in DOMAIN log : \A q \in DOMAIN log :
       (p < q /\ log[p].ev \in RequestStarts /\ log[q].ev \in RequestStarts)
         => CompletedBetween(p, q)
  /\ \A p \in DOMAIN log :
       (log[p].ev \in RequestStarts /\ ~CompletedBetween(p, Len(log) + 1))
         => Cardinality(outstanding) = 1
  /\ \A a \in 1..Len(StageOrder) :
       /\ Count(StageOrder[a]) <= 1
       /\ \A b \in 1..Len(StageOrder) :
            (a < b /\ Logged(StageOrder[b])) =>
              \E p \in Positions(StageOrder[a]) :
                \A q \in Positions(StageOrder[b]) : p < q
  /\ \A p \in DOMAIN log :
       log[p].ev \in {"quoteStart", "quoteEnd", "delayStart", "delayEnd",
                      "newsStart", "newsEnd", "earningsStart", "earningsEnd"}
         => /\ \E q \in Positions("aggregateStart") : q < p
            /\ \A q \in Positions("aggregateEnd") : p < q
  /\ \A p \in Positions("newsStart") :
       \E q \in Positions("quoteEnd") : q < p /\ log[q].k = ExpectedN
  /\ \A p \in Positions("earningsStart") :
       \E q \in Positions("newsEnd") : q < p

\* a run that went through every stage
C5_Witness ==
  /\ pc = "done"
  /\ \A a \in 1..Len(StageOrder) : Logged(StageOrder[a])
  /\ outstanding = {}

\* C6: a failed synthesis call is followed by no rendering and no mail send
\* and the process exits with status 1; a failed mail send ends the process
\* with status 1; a run ends without status 1 only after the mail transport
\* accepted the document; at most one mail send is attempted, and only after
\* aggregation, synthesis and rendering have completed.
C6_AllOrNothing ==
  /\ LoggedWith("synthesisEnd", 0) =>
       /\ ~Logged("renderStart")
       /\ ~Logged("mailStart")
       /\ htmlContent = <<>>
       /\ pc = "exited"
       /\ exitStatus = <<1>>
  /\ LoggedWith("mailEnd", 0) => (pc = "exited" /\ exitStatus = <<1>>)
  /\ (Ended /\ exitStatus # <<1>>) =>
       /\ exitStatus = <<0>>
       /\ LoggedWith("mailEnd", 1)
       /\ htmlContent # <<>>
  /\ Ended <=> exitStatus # <<>>
  /\ Count("mailStart") <= 1
  /\ \A p \in Positions("mailStart") :
       /\ \E q \in Positions("aggregateEnd") : q < p
       /\ \E q \in Positions("synthesisEnd") : q < p /\ log[q].k = 1
       /\ \E q \in Positions("renderEnd") : q < p

\* the synthesis call has failed
C6_Witness ==
  /\ LoggedWith("synthesisEnd", 0)
  /\ exitStatus = <<1>>

\* the fetch did not deliver a list
NewsFetchFailed(resp) == FetchRejects(resp) \/ resp.body.type # "array"

EarningsFetchFailed(resp) ==
  \/ FetchRejects(resp)
  \/ resp.body.type # "object"
  \/ Get(resp.body, "earningsCalendar").type # "array"

\* C7: a failed news fetch gives the empty news list, a failed earnings
\* fetch the empty earnings list; neither ends the run; each of the three
\* sub-results of the snapshot is determined by its own provider responses
\* alone; the earnings fetch is attempted after a failed news fetch.
C7_NewsEarningsBestEffort ==
  /\ (newsResp # <<>> /\ NewsFetchFailed(newsResp[1])) =>
       /\ news = <<>>
       /\ Logged("earningsStart")
  /\ (earnResp # <<>> /\ EarningsFetchFailed(earnResp[1])) =>
       /\ earnings = <<>>
       /\ Logged("aggregateEnd")
  /\ (ConfigComplete /\ Logged("exit")) => Logged("aggregateEnd")
  /\ Logged("newsEnd") => (Logged("earningsStart") /\ newsResp # <<>>)
  /\ Logged("earningsEnd") => (snapshot # <<>> /\ earnResp # <<>>)
  /\ snapshot # <<>> =>
       /\ snapshot[1].news = fetchMarketNews(newsResp[1])
       /\ snapshot[1].earnings = fetchEarningsCalendar(earnResp[1])
       /\ [m \in 1..Len(snapshot[1].marketData) |-> snapshot[1].marketData[m].symbol]
            = SucceededSymbols(ExpectedN)
       /\ NewsFetchFailed(newsResp[1]) => snapshot[1].news = <<>>
       /\ EarningsFetchFailed(earnResp[1]) => snapshot[1].earnings = <<>>

\* a snapshot after a failed news fetch, with quotes and earnings present
C7_Witness ==
  /\ snapshot # <<>>
  /\ NewsFetchFailed(newsResp[1])
  /\ snapshot[1].news = <<>>
  /\ snapshot[1].earnings # <<>>
  /\ snapshot[1].marketData # <<>>

StrictHeaderLine(line) ==
  LET d == Run(line, 1, Digits)
      w == Run(line, d + 2, {" ", "\t"})
      t == Run(line, d + w + 2, Uppers \cup {" "})
  IN  /\ d >= 1
      /\ d + 1 <= Len(line) /\ line[d + 1] = "."
      /\ w >= 1
      /\ t >= 1
      /\ d + 1 + w + t = Len(line)
      /\ \E k \in (d + w + 2)..Len(line) : line[k] \in Uppers

Document == htmlContent[1]

\* C9: the text "1. FOO\nbody1\n2. BAR\nbody2" is parsed into the two
\* sections (1, "FOO", "body1\n") and (2, "BAR", "body2"), in this order.
C9_FooBarExample ==
  (pc = "formatted" /\ analysis = TextFooBar) =>
    Document.blocks =
      << [kind |-> "section", number |-> <<"1">>, title |-> <<"F", "O", "O">>,
          content |-> <<"b", "o", "d", "y", "1", "\n">>],
         [kind |-> "section", number |-> <<"2">>, title |-> <<"B", "A", "R">>,
          content |-> <<"b", "o", "d", "y", "2">>] >>

\* C10: only a line that as a whole is an integer, a dot, whitespace and
\* uppercase letters and spaces is a section header: the text is split only
\* in front of such a line, and ordinal and title are captured only from a
\* chunk that begins with such a line.
C10_OnlyStrictHeaders ==
  pc = "formatted" =>
    /\ \A k \in 2..Len(Document.chunks) : StrictHeaderLine(FirstLine(Document.chunks[k]))
    /\ \A k \in 1..Len(Document.blocks) :
         Document.blocks[k].kind = "section"
           => StrictHeaderLine(FirstLine(Document.chunks[k]))

\* the text after the first line of s and its line break
AfterFirstLine(s) ==
  IF Len(FirstLine(s)) >= Len(s) THEN <<>>
  ELSE SubSeq(s, Len(FirstLine(s)) + 2, Len(s))

\* the leading integer of a header line
HeaderOrdinal(line) == SubSeq(line, 1, Run(line, 1, Digits))

\* the uppercase words of a header line: from the first character after the
\* whitespace that follows the dot to the last uppercase letter
HeaderTitle(line) ==
  LET d == Run(line, 1, Digits)
      w == Run(line, d + 2, {" ", "\t"})
      last == CHOOSE k \in (d + w + 2)..Len(line) :
                /\ line[k] \in Uppers
                /\ \A j \in (k + 1)..Len(line) : line[j] \notin Uppers
  IN  SubSeq(line, d + w + 2, last)

\* C11: for each chunk whose first line is a header line, the ordinal is the
\* leading integer of that line, the title is exactly the uppercase words of
\* that line (no line break, no trailing whitespace, nothing of later lines)
\* and the body is the chunk without its first line: empty for a chunk that
\* is only a header line, and keeping an uppercase or blank second line.
C11_HeaderCapture ==
  pc = "formatted" =>
    \A k \in 1..Len(Document.chunks) :
      StrictHeaderLine(FirstLine(Document.chunks[k])) =>
        /\ Document.blocks[k].kind = "section"
        /\ Document.blocks[k].number = HeaderOrdinal(FirstLine(Document.chunks[k]))
        /\ Document.blocks[k].title = HeaderTitle(FirstLine(Document.chunks[k]))
        /\ Document.blocks[k].content = AfterFirstLine(Document.chunks[k])

\* C12: a response that echoes the prompt's numbered headers, each followed
\* by body text, is parsed into exactly the prompt's (ordinal, title) pairs,
\* in order: all ten titles verbatim, nothing truncated, nothing appended.
C12_PromptRoundTrip ==
  (pc = "formatted" /\ analysis \in EchoTexts) =>
    /\ Len(Document.blocks) = Len(SectionTitles)
    /\ \A k \in 1..Len(SectionTitles) :
         /\ Document.blocks[k].kind = "section"
         /\ Document.blocks[k].number = NumberText(k)
         /\ Document.blocks[k].title = SectionTitles[k]

\* no line of the text is a header line
NoHeaderLine(text) ==
  \A k \in 1..Len(LinesFrom(text, 1, 1)) : ~StrictHeaderLine(LinesFrom(text, 1, 1)[k])

\* C13: a text without any header line, the empty text included, is parsed
\* into exactly one section, without a title, whose body is the whole text.
C13_NoHeaderOneSection ==
  (pc = "formatted" /\ NoHeaderLine(analysis)) =>
    Document.blocks =
      << [kind |-> "plain", number |-> <<>>, title |-> <<>>, content |-> analysis] >>

\* one block per chunk, and the chunks joined give back the text
BlocksFollowChunks ==
  pc = "formatted" =>
    /\ Len(Document.blocks) = Len(Document.chunks)
    /\ JoinLines(Document.chunks) = analysis

\* C14: formatEmailHTML emits one block per chunk of the split, in the
\* original order; a chunk whose first line is not a header line is emitted
\* as an untitled block holding the chunk's full text; the chunks joined with
\* line breaks are the whole response text.
C14_NothingDiscarded ==
  pc = "formatted" =>
    /\ BlocksFollowChunks
    /\ \A k \in 1..Len(Document.chunks) :
         ~StrictHeaderLine(FirstLine(Document.chunks[k])) =>
           Document.blocks[k] =
             [kind |-> "plain", number |-> <<>>, title |-> <<>>,
              content |-> Document.chunks[k]]

\* t is the end of s
IsSuffix(t, s) ==
  Len(t) <= Len(s) /\ SubSeq(s, Len(s) - Len(t) + 1, Len(s)) = t

\* the block shows the body of the chunk: the chunk without its first line,
\* up to white space at its start
EmitsBody(block, chunk) ==
  \/ block.kind = "plain" /\ block.content = chunk
  \/ /\ block.kind = "section"
     /\ \E a \in 0..Run(AfterFirstLine(chunk), 1, WhiteSpace) :
          LET rest == SubSeq(AfterFirstLine(chunk), a + 1, Len(AfterFirstLine(chunk)))
          IN  \/ IsSuffix(rest, block.content)
              \/ IsSuffix(rest, block.title \o block.content)

\* every chunk has its block in the document, in order, showing its body
EveryChunkEmitted ==
  /\ Len(Document.blocks) = Len(Document.chunks)
  /\ \A k \in 1..Len(Document.chunks) :
       k <= Len(Document.blocks) /\ EmitsBody(Document.blocks[k], Document.chunks[k])

\* the numbered rendering emits every chunk
NumberedEmitsAll == pc = "formatted" => EveryChunkEmitted

\* C15: whatever its title and however many sections there are, every
\* parsed section has a block in the document that shows its body text: no
\* section is left out because its title is not one of the taxonomy's.
C15_UnrecognizedStillEmitted ==
  pc \in {"formatted", "formattedTitled"} => EveryChunkEmitted

\* the value is null or absent
Missing(v) == v.type \in {"null", "undefined"}

\* the quote of the snapshot a card was made from
QuoteOfCard(card) ==
  CHOOSE q \in Range(snapshot[1].marketData) : q.symbol = card.symbol

Rendered == pc \in {"carded", "moved"}

\* C16: for an index quote whose changePercent is null or absent the summary
\* card neither shows 0.00 as the percentage nor the up indicator; for one
\* whose current is null or absent it does not show 0.00 as the price.
C16_MissingIsUnknown ==
  Rendered =>
    \A k \in 1..Len(Document.cards) :
      /\ Missing(QuoteOfCard(Document.cards[k]).changePercent) =>
           /\ Document.cards[k].percent # Fixed2(0)
           /\ ~Document.cards[k].up
      /\ Missing(QuoteOfCard(Document.cards[k]).current) =>
           Document.cards[k].price # Fixed2(0)

\* C17: the summary cards are, in snapshot order, one per quote of an
\* indices symbol whose fetch succeeded; there is no card for a majors or
\* sectors quote nor for an index whose fetch failed; the cards are the same
\* whatever the analysis text, also when no header is found in it.
C17_OneCardPerIndex ==
  Rendered =>
    /\ [k \in 1..Len(Document.cards) |-> Document.cards[k].symbol]
         = SucceededSymbols(NumIndices)
    /\ \A k \in 1..Len(Document.cards) :
         /\ Document.cards[k].symbol \in Range(Indices)
         /\ Document.cards[k].symbol \notin Range(Majors) \cup Range(Sectors)
         /\ \A m \in 1..Len(Document.cards) :
              m # k => Document.cards[m].symbol # Document.cards[k].symbol
    /\ \A j \in 1..NumIndices :
         ~QuoteFetchSucceeded(j) =>
           \A k \in 1..Len(Document.cards) : Document.cards[k].symbol # ExpectedOrder[j]
    /\ Document.cards = formatEmailHTML(TextNoHeader, snapshot[1]).cards
    /\ Document.cards = formatEmailHTML(TextSummary, snapshot[1]).cards

\* cards rendered beside a text without header, after a failed and a
\* successful index fetch, with a majors quote in the snapshot
C17_Witness ==
  /\ pc = "carded"
  /\ analysis = TextNoHeader
  /\ ~QuoteFetchSucceeded(1)
  /\ QuoteFetchSucceeded(NumIndices)
  /\ \E m \in 1..Len(snapshot[1].marketData) :
       snapshot[1].marketData[m].symbol \in Range(Majors)
  /\ Len(Document.cards) >= 1
  /\ Len(Document.cards) < Len(snapshot[1].marketData)

\* C18: once collectMarketData has returned it, the snapshot's quote, news
\* and earnings lists keep their elements and their order through prompt
\* building, rendering (the filters by category and the sort of the top
\* movers) and delivery.
C18_SnapshotImmutable ==
  snapshot # <<>> =>
    /\ snapshot[1].marketData = marketData
    /\ snapshot[1].news = news
    /\ snapshot[1].earnings = earnings

\* the movers have been filtered out of a larger list and put in another
\* order by the sort
C18_Witness ==
  /\ pc = "moved"
  /\ Len(htmlContent[2].movers) >= 2
  /\ Len(htmlContent[2].movers) < Len(snapshot[1].marketData)
  /\ htmlContent[2].movers # FilterBySymbol(marketData, Range(Majors))
  /\ Len(Document.cards) >= 1
  /\ snapshot[1].news # <<>>
  /\ snapshot[1].earnings # <<>>

RequestEnds == {"quoteEnd", "newsEnd", "earningsEnd", "synthesisEnd", "mailEnd"}

\* a step taken while a request is outstanding is the return of that
\* request: nothing else starts before
OnlyTheOutstandingCallReturns ==
  outstanding # {} =>
    /\ outstanding \cap outstanding' = {}
    /\ Len(log') > Len(log)
    /\ log'[Len(log) + 1].ev \in RequestEnds
    /\ SubSeq(log', 1, Len(log)) = log

\* C19: when every external call eventually returns or fails, the run
\* eventually ends, normally or with exit status 1; and while a call has not
\* returned, no later fetch and no later stage starts.
C19_TerminatesAndBlocks ==
  /\ <>Ended
  /\ [][OnlyTheOutstandingCallReturns]_vars
  /\ [](outstanding # {} => (~timerPending /\ ~Ended))

\* a run that made every external call and ended with status 1 on the
\* refusal of the mail
C19_Witness ==
  /\ pc = "exited"
  /\ exitStatus = <<1>>
  /\ LoggedWith("mailEnd", 0)
  /\ Count("quoteEnd") = ExpectedN
  /\ Count("delayEnd") = ExpectedN - 1
  /\ outstanding = {}

\* C20: when one of the five required configuration values is missing, main
\* issues no external request (no quote, news or earnings fetch, no
\* synthesis call, no mail send) and the process exits with status 1.
C20_MissingConfigAborts ==
  config # RequiredKeys =>
    /\ outstanding = {}
    /\ ~timerPending
    /\ \A p \in DOMAIN log : log[p].ev \notin RequestStarts \cup RequestEnds
    /\ quoteResp = <<>> /\ newsResp = <<>> /\ earnResp = <<>>
    /\ analysis = <<>> /\ htmlContent = <<>>
    /\ pc \in {"start", "exited"}
    /\ pc = "start" => ENABLED MainStart
    /\ pc = "exited" => (exitStatus = <<1>> /\ log = <<Ev("exit", 1, 0)>>)
    /\ exitStatus # <<0>>

\* the process has exited because exactly one value, the recipient, is missing
C20_Witness ==
  /\ config = RequiredKeys \ {"recipientEmail"}
  /\ pc = "exited"
  /\ exitStatus = <<1>>
  /\ ~Logged("aggregateStart")

\* every quote fetch, the news fetch and the earnings fetch have failed
AllFetchesFailed ==
  /\ Len(quoteResp) = ExpectedN
  /\ \A j \in 1..ExpectedN : ~QuoteFetchSucceeded(j)
  /\ newsResp # <<>> /\ NewsFetchFailed(newsResp[1])
  /\ earnResp # <<>> /\ EarningsFetchFailed(earnResp[1])

\* C21: when every quote fetch, the news fetch and the earnings fetch have
\* failed, the snapshot holds three empty lists and main has gone on to the
\* synthesis call; when that call succeeds a document is rendered and the
\* mail send is attempted; the run ends only after the synthesis call.
C21_EmptySnapshotGoesOn ==
  AllFetchesFailed =>
    /\ Len(snapshot) = 1
    /\ snapshot[1].marketData = <<>>
    /\ snapshot[1].news = <<>>
    /\ snapshot[1].earnings = <<>>
    /\ Count("synthesisStart") = 1
    /\ pc \in {"synthesisWait", "mailWait", "done", "exited"}
    /\ pc = "synthesisWait" <=> ~Logged("synthesisEnd")
    /\ LoggedWith("synthesisEnd", 1) =>
         /\ htmlContent # <<>>
         /\ Logged("renderEnd")
         /\ Count("mailStart") = 1
    /\ pc = "exited" => Logged("synthesisEnd")

\* the mail send has been attempted with a document made from three empty
\* lists
C21_Witness ==
  /\ AllFetchesFailed
  /\ pc = "mailWait"
  /\ snapshot[1].marketData = <<>> /\ snapshot[1].news = <<>> /\ snapshot[1].earnings = <<>>
  /\ htmlContent # <<>>
  /\ <<"mail", 0>> \in outstanding

\* the item cannot be converted: its timestamp is missing or no number
Unconvertible(item) ==
  ToISOStringThrows(TimesThousand(Get(item, "datetime")))

NewsFetched == pc \in {"fetchedNews", "fetchedBoth"}

\* C22: fetchMarketNews returns the empty list when the response is not a
\* list or when one of its first 20 items cannot be converted, not the
\* remaining valid items; an item past the 20th that cannot be converted
\* does not change the result.
C22_NewsAllOrNothing ==
  NewsFetched =>
    /\ NewsFetchFailed(newsResp[1]) => news = <<>>
    /\ ~NewsFetchFailed(newsResp[1]) =>
         LET items == newsResp[1].body.items
             kept == IF Len(items) < 20 THEN Len(items) ELSE 20
         IN  /\ (\E k \in 1..kept : Unconvertible(items[k])) => news = <<>>
             /\ (\A k \in 1..kept : ~Unconvertible(items[k])) =>
                  /\ Len(news) = kept
                  /\ \A k \in 1..kept : news[k].headline = items[k].headline
                  /\ news = fetchMarketNews(Json(JsArray(SubSeq(items, 1, kept))))

\* a response whose 20th item has no timestamp, all others being valid,
\* has given the empty list
C22_Witness ==
  /\ NewsFetched
  /\ ~NewsFetchFailed(newsResp[1])
  /\ Len(newsResp[1].body.items) >= 20
  /\ Unconvertible(newsResp[1].body.items[20])
  /\ \A k \in 1..19 : ~Unconvertible(newsResp[1].body.items[k])
  /\ news = <<>>

\* a response whose 21st item has no timestamp has given 20 items
NewsLateItemIgnored ==
  /\ NewsFetched
  /\ ~NewsFetchFailed(newsResp[1])
  /\ Len(newsResp[1].body.items) > 20
  /\ Unconvertible(newsResp[1].body.items[21])
  /\ Len(news) = 20

\* C23: a delay follows the fetch of every symbol but the last, whether the
\* fetch succeeded or failed: it starts at once when the fetch returns; a
\* run has N-1 delays for every pattern of failures; no delay lies between
\* the last quote fetch and the news fetch, nor between the news fetch and
\* the earnings fetch.
C23_DelayWhateverTheOutcome ==
  /\ \A p \in Positions("quoteEnd") :
       IF log[p].k < ExpectedN
       THEN /\ p < Len(log)
            /\ log[p + 1].ev = "delayStart"
            /\ log[p + 1].k = log[p].k
            /\ log[p + 1].at = log[p].at
       ELSE (Logged("exit") /\ ~Logged("newsStart")) \/
            /\ p < Len(log)
            /\ log[p + 1].ev = "newsStart"
            /\ log[p + 1].at = log[p].at
  /\ \A j \in 1..Len(quoteResp) :
       j < ExpectedN => Cardinality({p \in Positions("delayStart") : log[p].k = j}) = 1
  /\ \A p \in Positions("delayStart") :
       /\ log[p].k < ExpectedN
       /\ log[p].k <= Len(quoteResp)
       /\ p > 1 /\ log[p - 1].ev = "quoteEnd"
  /\ Logged("newsStart") =>
       /\ Count("delayStart") = ExpectedN - 1
       /\ Count("delayEnd") = ExpectedN - 1
       /\ clock = (ExpectedN - 1) * DelayMs
  /\ \A p \in Positions("newsEnd") :
       (Logged("exit") /\ ~Logged("earningsStart")) \/
       /\ p < Len(log)
       /\ log[p + 1].ev = "earningsStart"
       /\ log[p + 1].at = log[p].at

\* the earnings fetch has been issued after a failed first fetch and a
\* successful second one, each followed by its delay
C23_Witness ==
  /\ Logged("earningsStart")
  /\ ~QuoteFetchSucceeded(1)
  /\ QuoteFetchSucceeded(2)
  /\ LoggedWith("delayEnd", 1)
  /\ LoggedWith("delayEnd", 2)
  /\ Count("delayEnd") = ExpectedN - 1

====
